---- MODULE Spec2Model ----
(***************************************************************************)
(* Model of main.py: a FastAPI application that receives Telegram updates  *)
(* on POST /webhook, answers "/start" with a welcome message and any other *)
(* message with an echo of its text, through one sendMessage call to the   *)
(* Telegram Bot API, and acknowledges the update.                          *)
(*                                                                         *)
(* A handler is a coroutine: the code between two awaits runs atomically   *)
(* on the event loop, so each action is one such stretch of code.          *)
(***************************************************************************)
EXTENDS Integers, Sequences, FiniteSets, TLC

\* Number of webhook requests the server receives in a run.
NumReq == 2

Requests == 1..NumReq

----------------------------------------------------------------------------
(* Inputs *)

\* os.getenv("BOT_TOKEN"): None when the variable is unset, else its string.
NoneValue == "<None>"
TokenValues == {NoneValue, "", "123:ABC"}

ChatIds == {7, 42}
TextValues == {"/start", "", "/Start", "/start extra", " /start", "hello"}

\* Messages as Telegram delivers them (a sticker has no "text"), and messages
\* that lack "chat" or whose chat lacks "id".
Messages ==
         [chat : [id : ChatIds], text : TextValues]
    \cup [chat : [id : ChatIds], sticker : {"s"}]
    \cup [chat : [type : {"private"}], text : {"/start", "hello"}]
    \cup [text : {"/start", "hello"}]

\* The JSON objects a request may carry as an update.
Updates ==
         [update_id : {1}, message : Messages]
    \cup [update_id : {1}, edited_message : [chat : [id : {42}], text : {"/start"}]]
    \cup [update_id : {1}]

\* A request body: bytes that are the JSON text of an update, or bytes that
\* are not JSON at all.
Bodies == [valid : {TRUE}, update : Updates] \cup [valid : {FALSE}]

NoBody == [valid |-> FALSE, absent |-> TRUE]

\* How the awaited client.post(...) and raise_for_status() can turn out.
PostOutcomes == {"2xx", "RequestError", "HTTPStatusError"}

----------------------------------------------------------------------------
(* Constants of the program *)

WELCOME == "Hello! I am your simple Telegram bot. How can I help you?"

ACK == [code |-> 200, status |-> "ok"]
HEALTH == [code |-> 200, status |-> "ok", message |-> "Bot server is running!"]
\* The framework's answer when a handler raises.
SERVER_ERROR == [code |-> 500, status |-> "Internal Server Error"]
NoResponse == [code |-> 0, status |-> "pending"]

----------------------------------------------------------------------------
VARIABLES
    environ,     \* the value of BOT_TOKEN in the process environment
    BOT_TOKEN,   \* module global
    API_URL,     \* module global
    app,         \* "none" before import, "created" after FastAPI(), "aborted" after the raise
    pc,          \* pc[r]: position of the telegram_webhook coroutine of request r
    body,        \* body[r]: the body of request r
    posts,       \* posts[r]: the POSTs to /sendMessage issued for request r, in order
    outcome,     \* outcome[r]: how the awaited POST of request r resolved
    raised,      \* raised[r]: the exception that left the handler, if any
    response,    \* response[r]: the HTTP response of the handler
    log,         \* log[r]: the lines printed while handling request r
    health       \* the response of GET /, once served

vars == <<environ, BOT_TOKEN, API_URL, app, pc, body, posts, outcome, raised,
          response, log, health>>

----------------------------------------------------------------------------
(* Module import: lines 10-24 *)

\* Variant: `if BOT_TOKEN is None`, which lets an empty token through.
FalsyNoneOnly(v) == v = NoneValue

\* Python truthiness of an optional string: `not v`.
Falsy(v) == v = NoneValue \/ v = ""

Init ==
    /\ environ \in TokenValues
    /\ BOT_TOKEN = NoneValue
    /\ API_URL = NoneValue
    /\ app = "none"
    /\ pc = [r \in Requests |-> "idle"]
    /\ body = [r \in Requests |-> NoBody]
    /\ posts = [r \in Requests |-> <<>>]
    /\ outcome = [r \in Requests |-> "none"]
    /\ raised = [r \in Requests |-> "none"]
    /\ response = [r \in Requests |-> NoResponse]
    /\ log = [r \in Requests |-> <<>>]
    /\ health = NoResponse

\* The module body runs once: it reads the token, raises ValueError when it
\* is missing, and otherwise builds API_URL and the application.
Startup ==
    /\ app = "none"
    /\ BOT_TOKEN' = environ
    /\ IF Falsy(environ)
         THEN /\ app' = "aborted"
              /\ UNCHANGED API_URL
         ELSE /\ API_URL' = "https://api.telegram.org/bot" \o environ
              /\ app' = "created"
    /\ UNCHANGED <<environ, pc, body, posts, outcome, raised, response, log, health>>

----------------------------------------------------------------------------
(* GET / *)

health_check ==
    /\ app = "created"
    /\ health' = HEALTH
    /\ UNCHANGED <<environ, BOT_TOKEN, API_URL, app, pc, body, posts, outcome,
                   raised, response, log>>

----------------------------------------------------------------------------
(* POST /webhook *)

\* await request.json(): the parsed update, or JSONDecodeError.
request_json(b) ==
    IF b.valid THEN [raised |-> "none", value |-> b.update]
               ELSE [raised |-> "JSONDecodeError"]

\* Variant: edited messages are dispatched like new ones.
dispatch_message_or_edited(update) ==
    IF "message" \in DOMAIN update THEN <<update.message>>
    ELSE IF "edited_message" \in DOMAIN update THEN <<update.edited_message>>
    ELSE <<>>

\* `if "message" in update`: the message the handler works on, if any.
dispatch_message(update) ==
    IF "message" \in DOMAIN update THEN <<update.message>> ELSE <<>>

\* message["chat"]["id"]: the identifier, or KeyError.
chat_id_of(message) ==
    IF "chat" \in DOMAIN message /\ "id" \in DOMAIN message.chat
        THEN [raised |-> "none", value |-> message.chat.id]
        ELSE [raised |-> "KeyError"]

\* Variant: message.get("text") without a default, formatted as "None".
message_text_no_default(message) ==
    IF "text" \in DOMAIN message THEN message.text ELSE "None"

\* message.get("text", "")
message_text(message) ==
    IF "text" \in DOMAIN message THEN message.text ELSE ""

\* Variant: the command is compared without its slash.
reply_text_no_slash(text) ==
    IF text = "start"
        THEN WELCOME
        ELSE "You sent: '" \o text \o "'. Try sending /start to get a welcome message!"

\* The text the handler passes to send_message.
reply_text(text) ==
    IF text = "/start"
        THEN WELCOME
        ELSE "You sent: '" \o text \o "'. Try sending /start to get a welcome message!"

\* The line the handler prints once send_message has returned.
responded_line(text) ==
    IF text = "/start" THEN "Responded to /start"
                       ELSE "Responded to non-/start message"

\* The request send_message issues: client.post(f"{API_URL}/sendMessage", json=payload).
send_message_post(chat_id, text) ==
    [url |-> API_URL \o "/sendMessage",
     json |-> [chat_id |-> chat_id, text |-> text]]

\* Variant: asyncio.create_task(send_message(...)), the handler goes on at once.
SpawnSend == [pc |-> "done", response |-> ACK]

\* `await send_message(...)`: the handler is suspended until the call returns.
AwaitSend == [pc |-> "awaiting_post", response |-> NoResponse]

\* Variant: only the transport error is caught.
CaughtRequestErrorOnly(exc) == exc = "RequestError"

\* The except clauses of send_message.
Caught(exc) == exc \in {"RequestError", "HTTPStatusError"}

\* The handler leaves with an exception: the framework answers 500.
Raise(r, exc) ==
    /\ raised' = [raised EXCEPT ![r] = exc]
    /\ response' = [response EXCEPT ![r] = SERVER_ERROR]
    /\ pc' = [pc EXCEPT ![r] = "done"]

\* The handler returns {"status": "ok"}.
Return(r) ==
    /\ response' = [response EXCEPT ![r] = ACK]
    /\ pc' = [pc EXCEPT ![r] = "done"]
    /\ UNCHANGED raised

\* Request r arrives with body b; the handler runs from its start to the
\* awaited POST of send_message, or to its end when it sends nothing.
telegram_webhook(r, b) ==
    /\ app = "created"
    /\ pc[r] = "idle"
    /\ body' = [body EXCEPT ![r] = b]
    /\ UNCHANGED <<environ, BOT_TOKEN, API_URL, app, outcome, health>>
    /\ LET parsed == request_json(b) IN
       IF parsed.raised # "none"
         THEN /\ Raise(r, parsed.raised)
              /\ UNCHANGED <<posts, log>>
         ELSE
           LET msgs == dispatch_message(parsed.value) IN
           IF msgs = <<>>
             THEN /\ Return(r)
                  /\ log' = [log EXCEPT ![r] = <<"Received Telegram update">>]
                  /\ UNCHANGED posts
             ELSE
               LET chat == chat_id_of(msgs[1])
                   text == message_text(msgs[1])
               IN
               /\ log' = [log EXCEPT ![r] = <<"Received Telegram update">>]
               /\ IF chat.raised # "none"
                    THEN /\ Raise(r, chat.raised)
                         /\ UNCHANGED posts
                    ELSE /\ posts' = [posts EXCEPT ![r] =
                                Append(@, send_message_post(chat.value, reply_text(text)))]
                         /\ pc' = [pc EXCEPT ![r] = AwaitSend.pc]
                         /\ response' = [response EXCEPT ![r] = AwaitSend.response]
                         /\ UNCHANGED raised

\* Variant: a failed POST is issued once more before send_message gives up.
send_message_resume_retry(r, o) ==
    /\ pc[r] = "awaiting_post"
    /\ outcome' = [outcome EXCEPT ![r] = o]
    /\ UNCHANGED <<environ, BOT_TOKEN, API_URL, app, body, health>>
    /\ IF o # "2xx" /\ Len(posts[r]) < 2
         THEN /\ posts' = [posts EXCEPT ![r] = Append(@, @[1])]
              /\ log' = [log EXCEPT ![r] = Append(@, "retrying")]
              /\ UNCHANGED <<pc, raised, response>>
         ELSE /\ log' = [log EXCEPT ![r] = Append(@, "Message sent")]
              /\ Return(r)
              /\ UNCHANGED posts

\* The awaited POST of request r resolves with outcome o: send_message logs
\* the result or the error it catches and returns, and the handler prints
\* its line and returns the acknowledgment.
send_message_resume(r, o) ==
    /\ pc[r] = "awaiting_post"
    /\ outcome' = [outcome EXCEPT ![r] = o]
    /\ UNCHANGED <<environ, BOT_TOKEN, API_URL, app, body, posts, health>>
    /\ LET text == message_text(dispatch_message(body[r].update)[1])
           line == CASE o = "2xx" -> "Message sent"
                     [] o = "RequestError" -> "Error sending message (request error)"
                     [] o = "HTTPStatusError" -> "Error response while sending message"
       IN
       IF o = "2xx" \/ Caught(o)
         THEN /\ log' = [log EXCEPT ![r] = @ \o <<line, responded_line(text)>>]
              /\ Return(r)
         ELSE /\ Raise(r, o)
              /\ UNCHANGED log

----------------------------------------------------------------------------
Next ==
    \/ Startup
    \/ health_check
    \/ \E r \in Requests, b \in Bodies : telegram_webhook(r, b)
    \/ \E r \in Requests, o \in PostOutcomes : send_message_resume(r, o)

Spec == Init /\ [][Next]_vars

----------------------------------------------------------------------------
(* Vocabulary of the properties *)

Handled(r) == pc[r] = "done"

HasUpdate(r) == pc[r] # "idle" /\ body[r].valid

HasMessage(r) == HasUpdate(r) /\ "message" \in DOMAIN body[r].update

HasChatId(r) ==
    /\ HasMessage(r)
    /\ "chat" \in DOMAIN body[r].update.message
    /\ "id" \in DOMAIN body[r].update.message.chat

\* The received text, a missing "text" being read as the empty string.
ReceivedText(r) ==
    IF "text" \in DOMAIN body[r].update.message
        THEN body[r].update.message.text
        ELSE ""

Echo(text) == "You sent: '" \o text \o "'. Try sending /start to get a welcome message!"

SendFailed(r) == outcome[r] \in {"RequestError", "HTTPStatusError"}

----------------------------------------------------------------------------
(* Properties *)

\* C1: a request whose update has a message with a chat identifier is
\* answered {"status": "ok"} with status 200 whatever the outcome of
\* send_message: success, httpx.RequestError or httpx.HTTPStatusError; no
\* exception leaves the handler.
C1_AckWhateverSendOutcome ==
    \A r \in Requests :
        (Handled(r) /\ HasChatId(r)) =>
            /\ outcome[r] \in PostOutcomes
            /\ raised[r] = "none"
            /\ response[r] = ACK

\* C1 witness: one request acknowledged after a transport error and another
\* after a non-2xx status.
C1_Witness ==
    \E r1, r2 \in Requests :
        /\ Handled(r1) /\ HasChatId(r1) /\ outcome[r1] = "RequestError"
        /\ response[r1] = ACK
        /\ Handled(r2) /\ HasChatId(r2) /\ outcome[r2] = "HTTPStatusError"
        /\ response[r2] = ACK

\* C2: a request whose body is not valid JSON makes no outbound call and is
\* still answered {"status": "ok"} with status 200.
C2_InvalidJsonAcknowledged ==
    \A r \in Requests :
        (Handled(r) /\ ~body[r].valid) =>
            /\ posts[r] = <<>>
            /\ response[r] = ACK

\* C3 as stated: for every update with a message whose text is exactly
\* "/start", send_message is invoked exactly once, with the welcome text and
\* the chat identifier of message.chat.id.
C3_StartSendsWelcomeOnce_AnyMessage ==
    \A r \in Requests :
        (HasMessage(r) /\ ReceivedText(r) = "/start") =>
            /\ Len(posts[r]) <= 1
            /\ Handled(r) =>
                /\ Len(posts[r]) = 1
                /\ posts[r][1].json.text = WELCOME
                /\ posts[r][1].json.chat_id = body[r].update.message.chat.id

\* C3 amended: for every update with a message that has a chat identifier
\* and whose text is exactly "/start", send_message is invoked exactly once,
\* with the welcome text and that chat identifier.
C3_StartSendsWelcomeOnce ==
    \A r \in Requests :
        (HasChatId(r) /\ ReceivedText(r) = "/start") =>
            /\ Len(posts[r]) = 1
            /\ posts[r][1].json.text = WELCOME
            /\ posts[r][1].json.chat_id = body[r].update.message.chat.id

\* C3 witness: a handled "/start" from chat 42, answered with the welcome text.
C3_Witness ==
    \E r \in Requests :
        /\ Handled(r) /\ HasChatId(r) /\ ReceivedText(r) = "/start"
        /\ body[r].update.message.chat.id = 42
        /\ posts[r] = <<[url |-> API_URL \o "/sendMessage",
                         json |-> [chat_id |-> 42, text |-> WELCOME]]>>

\* C4 as stated, its second half: the fallback reply is one fixed string, so
\* the texts sent for any two messages whose text is not exactly "/start"
\* are the same, whatever text was received (and none is sent twice).
C4_FallbackIsOneFixedString ==
    \A r1, r2 \in Requests :
        (/\ Handled(r1) /\ HasMessage(r1) /\ ReceivedText(r1) # "/start"
         /\ Handled(r2) /\ HasMessage(r2) /\ ReceivedText(r2) # "/start") =>
            /\ Len(posts[r1]) <= 1
            /\ Len(posts[r2]) <= 1
            /\ \A i \in 1..Len(posts[r1]), j \in 1..Len(posts[r2]) :
                   /\ posts[r1][i].json.text # WELCOME
                   /\ posts[r1][i].json.text = posts[r2][j].json.text

\* C4 amended: for every update with a message that has a chat identifier
\* and whose text is not exactly "/start" (a missing text being read as the
\* empty string), send_message is invoked exactly once, with that chat
\* identifier and the reply "You sent: '<text>'. Try sending /start to get a
\* welcome message!", in which <text> is the received text.
C4_FallbackEchoesText ==
    \A r \in Requests :
        (HasChatId(r) /\ ReceivedText(r) # "/start") =>
            /\ Len(posts[r]) = 1
            /\ posts[r][1].json.text = Echo(ReceivedText(r))
            /\ posts[r][1].json.text # WELCOME
            /\ posts[r][1].json.chat_id = body[r].update.message.chat.id

\* C4 witness: a message without text and a message "/Start", both handled,
\* answered with different replies.
C4_Witness ==
    \E r1, r2 \in Requests :
        /\ Handled(r1) /\ HasChatId(r1) /\ "text" \notin DOMAIN body[r1].update.message
        /\ posts[r1][1].json.text = "You sent: ''. Try sending /start to get a welcome message!"
        /\ Handled(r2) /\ HasChatId(r2) /\ ReceivedText(r2) = "/Start"
        /\ posts[r2][1].json.text = "You sent: '/Start'. Try sending /start to get a welcome message!"

\* C5: an update without a "message" key causes no send_message call and is
\* answered {"status": "ok"}.
C5_NoMessageNoSend ==
    \A r \in Requests :
        (HasUpdate(r) /\ "message" \notin DOMAIN body[r].update) =>
            /\ posts[r] = <<>>
            /\ outcome[r] = "none"
            /\ Handled(r)
            /\ response[r] = ACK

\* C5 witness: an update carrying only "edited_message" has been handled.
C5_Witness ==
    \E r \in Requests :
        /\ Handled(r) /\ HasUpdate(r)
        /\ "edited_message" \in DOMAIN body[r].update
        /\ posts[r] = <<>>
        /\ response[r] = ACK

\* C6: a message without a chat identifier (no "chat", or a chat without
\* "id") is a silent no-op: no send_message call, no error, and the answer
\* {"status": "ok"} with status 200.
C6_MissingChatIdIsSilentNoOp ==
    \A r \in Requests :
        (Handled(r) /\ HasMessage(r) /\ ~HasChatId(r)) =>
            /\ posts[r] = <<>>
            /\ raised[r] = "none"
            /\ response[r] = ACK

\* C7: with BOT_TOKEN unset or empty the import aborts before the application
\* exists: no webhook or health request is ever handled without a token.
C7_NoTokenNoService ==
    /\ (environ = NoneValue \/ environ = "") =>
            /\ app # "created"
            /\ health = NoResponse
            /\ \A r \in Requests :
                   pc[r] = "idle" /\ response[r] = NoResponse /\ posts[r] = <<>>
    /\ (app = "created" \/ health # NoResponse \/ \E r \in Requests : pc[r] # "idle") =>
            /\ BOT_TOKEN = environ
            /\ BOT_TOKEN \notin {NoneValue, ""}

\* C7 witness: the import has run with an empty token and has aborted.
C7_Witness == environ = "" /\ app = "aborted" /\ BOT_TOKEN = ""

\* C8 as stated: a request causes at most one sendMessage attempt: none when
\* its update has no message, one when it has; a failed attempt is not retried.
C8_OneAttemptPerMessage ==
    \A r \in Requests :
        /\ Len(posts[r]) <= 1
        /\ Handled(r) => Len(posts[r]) = (IF HasMessage(r) THEN 1 ELSE 0)

\* C8 amended: a request causes at most one sendMessage attempt: one when its
\* update has a message with a chat identifier, none otherwise (no message,
\* no chat identifier, or a body that is not JSON); a failed attempt is not
\* retried or queued.
C8_OneAttemptPerAddressedMessage ==
    \A r \in Requests :
        /\ Len(posts[r]) <= 1
        /\ pc[r] # "idle" => Len(posts[r]) = (IF HasChatId(r) THEN 1 ELSE 0)
        /\ SendFailed(r) => Handled(r)

\* C8 witness: one request whose only attempt failed, and one without a
\* message that made none.
C8_Witness ==
    \E r1, r2 \in Requests :
        /\ Handled(r1) /\ HasChatId(r1) /\ SendFailed(r1) /\ Len(posts[r1]) = 1
        /\ Handled(r2) /\ HasUpdate(r2) /\ ~HasMessage(r2) /\ posts[r2] = <<>>

\* C9: for a request whose update has a message, the acknowledgment comes
\* only after its send attempt has resolved: while the POST is pending there
\* is no response, and an acknowledged request has one attempt, resolved.
C9_AckAfterSendResolved ==
    \A r \in Requests :
        HasMessage(r) =>
            /\ pc[r] = "awaiting_post" => response[r] = NoResponse /\ outcome[r] = "none"
            /\ response[r] = ACK =>
                /\ Len(posts[r]) = 1
                /\ outcome[r] \in PostOutcomes

\* C9 witness: one request acknowledged after its failed send, while another
\* is still waiting for its POST.
C9_Witness ==
    \E r1, r2 \in Requests :
        /\ HasMessage(r1) /\ response[r1] = ACK /\ outcome[r1] = "RequestError"
        /\ HasMessage(r2) /\ pc[r2] = "awaiting_post" /\ Len(posts[r2]) = 1

\* C10, first half: every send carries the chat identifier and the reply of
\* its own request's update, whatever the other requests are doing.
C10_SendsCarryOwnUpdate ==
    \A r \in Requests :
        \A i \in 1..Len(posts[r]) :
            /\ HasChatId(r)
            /\ posts[r][i].json.chat_id = body[r].update.message.chat.id
            /\ posts[r][i].json.text =
                   (IF ReceivedText(r) = "/start" THEN WELCOME ELSE Echo(ReceivedText(r)))

\* C10: under any interleaving of requests every send carries the chat
\* identifier and the reply of its own request's update, and every request
\* that has been handled has been acknowledged.
C10_IsolatedAndAcknowledged ==
    /\ C10_SendsCarryOwnUpdate
    /\ \A r \in Requests : Handled(r) => response[r] = ACK

====
